---- MODULE Spec2Model ----
(***************************************************************************)
(* State-machine model of src/state-machine.js (class StateMachine).       *)
(*                                                                         *)
(* JavaScript is run-to-completion on one thread, so the only             *)
(* interleavings are the ones the code itself opens: a hook is a callback  *)
(* of unknown code that runs in the middle of _setState and may call       *)
(* transition() again before it returns, and a promise returned by a hook  *)
(* settles in a later task.  The model therefore keeps an explicit call    *)
(* stack (one frame per hook body that is executing) and one record per    *)
(* call of _setState / transition.                                         *)
(***************************************************************************)
EXTENDS Naturals, Sequences, FiniteSets

\* ------------------------------------------------------------------ bounds

\* number of transition() calls made on one instance
MaxCalls == 3
\* how many times a thenable calls the continuations it was handed
MaxContinuations == 2

\* ------------------------------------------------------------ JS values

Undefined == "undefined"
Null == "null"

\* a JS object as the code sees it: its type tag and its own enumerable
\* properties in insertion order (Object.entries order)
Obj(tag, entries) == [tag |-> tag, entries |-> entries]
UndefObj == Obj("undefined", <<>>)
NullObj == Obj("null", <<>>)
Plain(entries) == Obj("plain", entries)
Prop(key, val) == [key |-> key, val |-> val]

\* an onEnter property: absent, or a function.  A function is code of the
\* caller; two kinds stand for it: a jest mock as in the tests, which returns
\* undefined and does nothing else, and a function that may do anything a
\* hook can do (return a value or a promise, throw, call transition()).
NoHook == "none"
MockHook == "mock"
AnyHook == "any"
\* a third kind: a function that returns an object with a then() function
\* that is no promise; that object calls the continuations handed to then()
\* when and as often as it likes
ThenableHook == "thenable"

\* a state definition: null, or an object with optional transitions / onEnter
NullDef == [tag |-> "null", transitions |-> UndefObj, onEnter |-> NoHook]
StateDef(transitions, hook) ==
    [tag |-> "plain", transitions |-> transitions, onEnter |-> hook]

\* a machine definition: null, or an object with optional states / onEnter
MachineDef(states, hook) == [tag |-> "plain", states |-> states, onEnter |-> hook]
NullMachine == [tag |-> "null", states |-> UndefObj, onEnter |-> NoHook]

\* Payloads, hook results and hook errors are opaque to the machine: it only
\* passes them on.  Every call gets tokens of its own, so that a value handed
\* to the wrong call, or replaced by another one, shows.
\* the payload the id-th call passes to transition()
Payload(id) == <<Undefined, "p2", "p3", "p4", "p5", "p6">>[id]
\* the value the state hook entered by the id-th call returns or resolves with
HookValue(id) == <<"v1", "v2", "v3", "v4", "v5", "v6">>[id]
\* the error a hook of the id-th call throws or rejects with
HookError(id) == <<"e1", "e2", "e3", "e4", "e5", "e6">>[id]

\* errors the machine itself creates
InvalidStates == "Error: Invalid states"
InvalidInitialState == "Error: Invalid initial state"
InvalidDestination == "Error: Invalid destination state for transition"
InvalidTransition == "Error: Invalid transition"
InvalidSetState == "Error: Cannot transition to invalid state"
\* what the engine raises on a property read of null / undefined
TypeError == "TypeError"

\* ------------------------------------------------------------- helpers

isFunction(fn) == fn # NoHook

isPlainObject(obj) == obj.tag = "plain"

isString(key) == key \notin {Undefined, Null}

Truthy(obj) == obj.tag \notin {"undefined", "null"}

has(obj, key) ==
    IF \/ obj.tag \in {"undefined", "null"}
       \/ obj.tag \notin {"plain", "array"}
       \/ ~isString(key)
    THEN FALSE
    ELSE \E i \in 1..Len(obj.entries) : obj.entries[i].key = key

\* obj[key] for a key the object has
Lookup(obj, key) ==
    LET i == CHOOSE i \in 1..Len(obj.entries) : obj.entries[i].key = key
    IN obj.entries[i].val

\* get(machine, 'states')
get(machine) ==
    IF machine.tag \in {"undefined", "null"} THEN UndefObj
    ELSE machine.states

\* getValidated(machine, 'states', isPlainObject)
getValidated(machine) ==
    LET value == get(machine)
    IN IF isPlainObject(value) THEN value ELSE UndefObj

\* _validateMachine without the check of the initial state
validateMachineNoInitial(machine, initialState) ==
    LET states == getValidated(machine)
    IN IF ~Truthy(states) THEN InvalidStates
       ELSE IF \E i \in 1..Len(states.entries) :
                 LET state == states.entries[i].val
                 IN /\ state.tag # "null"
                    /\ isPlainObject(state.transitions)
                    /\ \E j \in 1..Len(state.transitions.entries) :
                         ~has(machine.states, state.transitions.entries[j].val)
            THEN InvalidDestination
       ELSE "ok"

\* _validateMachine without the check of the transitions' destinations
validateMachineNoTargets(machine, initialState) ==
    LET states == getValidated(machine)
    IN IF ~Truthy(states) THEN InvalidStates
       ELSE IF ~has(states, initialState) THEN InvalidInitialState
       ELSE "ok"

\* the error _validateMachine throws, or "ok"
validateMachine(machine, initialState) ==
    LET states == getValidated(machine)
    IN IF ~Truthy(states) THEN InvalidStates
       ELSE IF ~has(states, initialState) THEN InvalidInitialState
       ELSE IF \E i \in 1..Len(states.entries) :
                 LET state == states.entries[i].val
                 IN /\ state.tag # "null"
                    /\ isPlainObject(state.transitions)
                    /\ \E j \in 1..Len(state.transitions.entries) :
                         ~has(machine.states, state.transitions.entries[j].val)
            THEN InvalidDestination
       ELSE "ok"

\* --------------------------------------------------- configurations

\* test/state-machine.test.js beforeEach: the on/off machine
OnOffMachine ==
    MachineDef(Plain(<<
        Prop("off", StateDef(Plain(<<Prop("turnOn", "on")>>), MockHook)),
        Prop("on", StateDef(Plain(<<Prop("turnOff", "off")>>), MockHook))>>), MockHook)

\* class JSDoc example: the traffic light
TrafficLight ==
    MachineDef(Plain(<<
        Prop("green", StateDef(Plain(<<Prop("change", "yellow")>>), NoHook)),
        Prop("yellow", StateDef(Plain(<<Prop("change", "red")>>), NoHook)),
        Prop("red", StateDef(Plain(<<Prop("change", "green")>>), NoHook))>>), MockHook)

\* test 'should handle transition-less states'
TerminalMachine ==
    MachineDef(Plain(<<
        Prop("off", StateDef(Plain(<<Prop("turnOn", "alwaysOn")>>), NoHook)),
        Prop("alwaysOn", NullDef)>>), NoHook)

\* test 'should proxy proper async return values from onEnter'
StartingMachine ==
    MachineDef(Plain(<<
        Prop("off", StateDef(Plain(<<Prop("start", "starting")>>), NoHook)),
        Prop("starting", StateDef(Plain(<<Prop("started", "on")>>), AnyHook)),
        Prop("on", StateDef(Plain(<<Prop("stop", "off")>>), NoHook))>>), NoHook)

\* global and per-state hooks that may do anything, a state with two
\* transitions and a state whose definition has no transitions property
BranchMachine ==
    MachineDef(Plain(<<
        Prop("idle", StateDef(Plain(<<Prop("go", "busy"), Prop("quit", "done")>>), NoHook)),
        Prop("busy", StateDef(Plain(<<Prop("finish", "idle")>>), AnyHook)),
        Prop("done", StateDef(UndefObj, AnyHook))>>), AnyHook)

\* test 'should throw an error if invalid transitions are specified'
DanglingMachine ==
    MachineDef(Plain(<<
        Prop("foo", StateDef(Plain(<<Prop("toBar", "bar")>>), AnyHook))>>), AnyHook)

\* a dangling transition that is not the first one checked
LateDanglingMachine ==
    MachineDef(Plain(<<
        Prop("a", StateDef(Plain(<<Prop("go", "b")>>), NoHook)),
        Prop("b", StateDef(Plain(<<Prop("back", "a"), Prop("out", "c")>>), AnyHook))>>), AnyHook)

\* test 'should throw an error if invalid states are specified': {} and null
\* a state whose hook returns a promise-like object of its own making
ThenableMachine ==
    MachineDef(Plain(<<
        Prop("idle", StateDef(Plain(<<Prop("fetch", "loading")>>), NoHook)),
        Prop("loading", StateDef(Plain(<<Prop("done", "idle")>>), ThenableHook))>>),
        NoHook)

NoStatesMachine == MachineDef(UndefObj, AnyHook)
\* states given as something that is not a plain object
ArrayStatesMachine == MachineDef(Obj("array", <<Prop("0", NullDef)>>), AnyHook)
\* states present with no keys
EmptyStatesMachine == MachineDef(Plain(<<>>), AnyHook)

Machines ==
    {OnOffMachine, TrafficLight, TerminalMachine, StartingMachine, BranchMachine,
     ThenableMachine,
     DanglingMachine, LateDanglingMachine,
     NullMachine, NoStatesMachine, ArrayStatesMachine, EmptyStatesMachine}

Keys(obj) == {obj.entries[i].key : i \in 1..Len(obj.entries)}

\* the second constructor argument: a key of states, a name that is no key,
\* or nothing at all
InitialStates(m) == Keys(m.states) \cup {"nowhere", Undefined}

\* the names transition() is called with: the declared ones and one that no
\* state declares
TransitionNames(m) ==
    UNION {Keys(m.states.entries[i].val.transitions) : i \in 1..Len(m.states.entries)}
        \cup {"doesNotExist"}

\* ------------------------------------------------------------ state

VARIABLES
    machine,        \* this._machine: the definition handed to the constructor
    initialState,   \* the constructor's second argument
    phase,          \* "new" | "constructing" | "ready" | "failed"
    ctorError,      \* what `new StateMachine` threw, or "none"
    currentState,   \* this._currentState
    calls,          \* one record per _setState / transition call, in call order
    stack,          \* hook bodies that are executing, innermost last
    log,            \* hook invocations and their returns, in order
    result          \* what the last call of a method that only reads gave back

vars == <<machine, initialState, phase, ctorError, currentState, calls, stack, log,
          result>>

\* calls[1] is the constructor's _setState(initialState); calls[2..] are the
\* transition() calls.  by: 0 = code outside the machine, i = the hook that
\* call i entered, while its body runs.
\* st: "running" (inside a hook of this call), "pending" | "resolved" |
\* "rejected" (the promise it returned), "thrown" (it did not return).
\* ret: what the state's hook returned: "none" (it has not returned),
\* "promise", "thenable", or the value.  conts: the continuations a thenable
\* has called so far ("resolved" for the first argument of then(), "rejected"
\* for the second).
\* hp: the promise the state's hook returned: "none" | "pending" | "resolved"
\* | "rejected".  retCur: currentState at the moment the call returned.
\* inside: the calls whose hooks were running when this call was made (it was
\* made from inside them).  pend: the calls whose hook promise was pending
\* when this call was made.
NewCall(name, data, by, from) ==
    [name |-> name, data |-> data, by |-> by, from |-> from, to |-> Undefined,
     st |-> "running", val |-> Undefined,
     ret |-> "none", hp |-> "none", hpval |-> Undefined, retCur |-> Undefined,
     conts |-> <<>>,
     inside |-> {stack[k].id : k \in 1..Len(stack)},
     pend |-> {i \in 1..Len(calls) : calls[i].hp = "pending"}]

\* a hook ("global" | "state") of call id is called ("call") with (data,
\* newState, oldState, transition), returns ("ret") or throws ("throw");
\* cur is this._currentState at that moment
Event(hook, ph, id, data, newState, oldState, transition, cur) ==
    [hook |-> hook, ph |-> ph, id |-> id, data |-> data,
     newState |-> newState, oldState |-> oldState, transition |-> transition,
     cur |-> cur]

\* onEnter(data, oldState, state, transition): the two states exchanged
HookEventSwapped(cs, hook, ph, id) ==
    Event(hook, ph, id, cs[id].data, cs[id].from, cs[id].to, cs[id].name,
          currentState')

\* the event of a hook of call id, from the arguments _setState holds
HookEvent(cs, hook, ph, id) ==
    Event(hook, ph, id, cs[id].data, cs[id].to, cs[id].from, cs[id].name,
          currentState')

Top == stack[Len(stack)]
Pop(stk) == SubSeq(stk, 1, Len(stk) - 1)
Frame(id, pc) == [id |-> id, pc |-> pc]

\* the constructor is inside its _setState call until that call returns (the
\* instance exists) or throws (no instance)
PhaseOf(cs) ==
    IF cs[1].st = "running" THEN "constructing"
    ELSE IF cs[1].st = "thrown" THEN "failed"
    ELSE "ready"

\* this._machine.states[state] has an onEnter function
HasStateHook(state) ==
    LET def == Lookup(machine.states, state)
    IN def.tag # "null" /\ isFunction(def.onEnter)

\* the function whose body the top frame is executing
TopHook ==
    IF Top.pc = "global" THEN machine.onEnter
    ELSE Lookup(machine.states, calls[Top.id].to).onEnter

\* _setState calling the state's hook before the global one
FirstHookState(state) ==
    IF HasStateHook(state) THEN "state"
    ELSE IF isFunction(machine.onEnter) THEN "global"
    ELSE "none"

\* the hook _setState calls first
FirstHook(state) ==
    IF isFunction(machine.onEnter) THEN "global"
    ELSE IF HasStateHook(state) THEN "state"
    ELSE "none"

\* _setState storing the state on the initial entry only
NewCurrentStateInitialOnly(state, oldState) ==
    IF oldState = Null THEN state ELSE oldState

\* _setState putting off the new state while a hook's promise is pending
NewCurrentStateQueued(state, oldState) ==
    IF \E i \in 1..Len(calls) : calls[i].hp = "pending" THEN oldState ELSE state

\* the value _setState stores in this._currentState
NewCurrentState(state, oldState) == state

\* an executor that does not find the state's onEnter: it always resolves
\* with nothing
ExecutorSkipsHook(cs, lg, stk, id) ==
    /\ stack' = stk
    /\ log' = lg
    /\ calls' = [cs EXCEPT ![id].st = "resolved", ![id].val = Undefined,
                           ![id].retCur = currentState']

\* the executor of the promise _setState returns, up to the call of the
\* state's hook: cs, lg, stk are calls, log and stack as _setState left them
Executor(cs, lg, stk, id) ==
    IF HasStateHook(cs[id].to)
    THEN /\ stack' = Append(stk, Frame(id, "state"))
         /\ log' = Append(lg, HookEvent(cs, "state", "call", id))
         /\ calls' = cs
    ELSE /\ stack' = stk
         /\ log' = lg
         /\ calls' = [cs EXCEPT ![id].st = "resolved", ![id].val = Undefined,
                                ![id].retCur = currentState']

\* _setState(state, transition, data) for the call cs[id], up to the call
\* of the global hook
SetState(cs, id, state) ==
    IF ~has(machine.states, state)
    THEN /\ calls' = [cs EXCEPT ![id].st = "rejected", ![id].val = InvalidSetState,
                                ![id].retCur = currentState]
         /\ UNCHANGED <<currentState, stack, log>>
    ELSE LET oldState == currentState
             cs2 == [cs EXCEPT ![id].to = state, ![id].from = oldState]
         IN /\ currentState' = NewCurrentState(state, oldState)
            /\ IF FirstHook(state) = "global"
               THEN /\ stack' = Append(stack, Frame(id, "global"))
                    /\ log' = Append(log, HookEvent(cs2, "global", "call", id))
                    /\ calls' = cs2
               ELSE Executor(cs2, log, stack, id)

\* the third argument of `new StateMachine(configuration, initialState,
\* initialStateErrorHandler)`; constructor(machine, initialState) has no
\* parameter for it
initialStateErrorHandler == MockHook

\* the rejection handlers the constructor attaches to the promise that
\* this._setState(initialState) returns: it drops the promise
CtorHandlers == {}

\* ------------------------------------------------------------ reading
\* The methods that only read are called by code outside the hooks, after
\* any history of fewer than MaxCalls transition() calls.

\* no method that only reads was the last thing called
NoResult == [op |-> "none"]

\* a method that only reads returned out, or threw it
Result(op, arg, out, thrown) ==
    [op |-> op, arg |-> arg, out |-> out, thrown |-> thrown]

\* the lines of the .dot text between 'digraph "fsm" {' and '}'
NodeLine(k) == <<"node", k>>
EdgeLine(from, to, t) == <<"edge", from, to, t>>
BlankLine == <<"blank">>

\* Object.entries(stateTransitions).reduce(...): the edge lines of one state
StateEdges(from, stateTransitions) ==
    [i \in 1..Len(stateTransitions.entries) |->
        EdgeLine(from, stateTransitions.entries[i].val,
                 stateTransitions.entries[i].key)]

\* stateNames.reduce(...) over the first n states
RECURSIVE DotTransitions(_, _)
DotTransitions(states, n) ==
    IF n = 0 THEN <<>>
    ELSE LET def == states.entries[n].val
             stateTransitions == IF Truthy(def.transitions) THEN def.transitions
                                 ELSE Plain(<<>>)
         IN DotTransitions(states, n - 1)
                \o StateEdges(states.entries[n].key, stateTransitions)

\* getDotFile(): nothing in a production build; otherwise the node lines in
\* key order, then the edge lines state by state.  It reads .transitions of
\* every state definition, which throws for one that is null.
getDotFile(m, production) ==
    IF production THEN Result("getDotFile", production, <<>>, FALSE)
    ELSE IF \E i \in 1..Len(m.states.entries) : m.states.entries[i].val.tag = "null"
    THEN Result("getDotFile", production, TypeError, TRUE)
    ELSE LET transitions == DotTransitions(m.states, Len(m.states.entries))
         IN Result("getDotFile", production,
                   [i \in 1..Len(m.states.entries) |-> NodeLine(m.states.entries[i].key)]
                       \o (IF transitions = <<>> THEN <<BlankLine>> ELSE transitions),
                   FALSE)

Init ==
    /\ machine \in Machines
    /\ initialState \in InitialStates(machine)
    /\ phase = "new"
    /\ ctorError = "none"
    /\ currentState = Null
    /\ calls = <<>>
    /\ stack = <<>>
    /\ log = <<>>
    /\ result = NoResult

\* this._currentState = initialState: the state stored before it is validated
CtorCurrentStateEager(initial) == initial

\* this._currentState = null: what the constructor stores before it validates
CtorCurrentState(initial) == Null

\* new StateMachine(machine, initialState) fails validation
ConstructFail ==
    /\ result' = NoResult
    /\ phase = "new"
    /\ validateMachine(machine, initialState) # "ok"
    /\ phase' = "failed"
    /\ ctorError' = validateMachine(machine, initialState)
    /\ currentState' = CtorCurrentState(initialState)
    /\ UNCHANGED <<machine, initialState, calls, stack, log>>

\* new StateMachine(machine, initialState) passes validation and stores the
\* initial state itself, this._currentState = initialState, without _setState
ConstructDirect ==
    /\ result' = NoResult
    /\ phase = "new"
    /\ validateMachine(machine, initialState) = "ok"
    /\ currentState' = initialState
    /\ calls' = <<[NewCall(Undefined, Undefined, 0, currentState) EXCEPT
                      !.to = initialState, !.from = currentState,
                      !.st = "resolved", !.retCur = initialState]>>
    /\ phase' = PhaseOf(calls')
    /\ UNCHANGED <<machine, initialState, ctorError, stack, log>>

\* new StateMachine(machine, initialState) passes validation and enters the
\* initial state
Construct ==
    /\ result' = NoResult
    /\ phase = "new"
    /\ validateMachine(machine, initialState) = "ok"
    /\ LET cs == <<NewCall(Undefined, Undefined, 0, currentState)>>
       IN SetState(cs, 1, initialState)
    /\ phase' = PhaseOf(calls')
    /\ UNCHANGED <<machine, initialState, ctorError>>

\* who calls transition() now: while a hook body runs, that hook; otherwise
\* code the machine did not call (0)
Caller == IF stack # <<>> THEN Top.id ELSE 0

\* transition() taking the state's first transition whatever the name
DestinationFirst(state, transition) == state.transitions.entries[1].val

\* state.transitions[transition]
Destination(state, transition) == Lookup(state.transitions, transition)

\* machine.transition(transition, data)
Transition(transition) ==
    /\ result' = NoResult
    /\ phase = "ready"
    /\ Len(calls) < MaxCalls + 1
    /\ stack # <<>> => TopHook = AnyHook
    /\ LET id == Len(calls) + 1
           cs == Append(calls, NewCall(transition, Payload(id), Caller, currentState))
           state == Lookup(machine.states, currentState)
       IN IF state.tag = "null"
          THEN \* state.transitions on null
               /\ calls' = [cs EXCEPT ![id].st = "thrown", ![id].val = TypeError]
               /\ UNCHANGED <<currentState, stack, log>>
          ELSE IF ~has(state.transitions, transition)
          THEN /\ calls' = [cs EXCEPT ![id].st = "rejected",
                                      ![id].val = InvalidTransition,
                                      ![id].retCur = currentState]
               /\ UNCHANGED <<currentState, stack, log>>
          ELSE SetState(cs, id, Destination(state, transition))
    /\ UNCHANGED <<machine, initialState, phase, ctorError>>

\* the global hook returns: _setState goes on to the promise executor
GlobalReturn ==
    /\ result' = NoResult
    /\ stack # <<>>
    /\ Top.pc = "global"
    /\ UNCHANGED <<machine, initialState, ctorError, currentState>>
    /\ Executor(calls, Append(log, HookEvent(calls, "global", "ret", Top.id)),
                Pop(stack), Top.id)
    /\ phase' = PhaseOf(calls')

\* the global hook throws and _setState catches it: it goes on to the promise
\* executor as if the hook had returned
GlobalThrowCaught ==
    /\ result' = NoResult
    /\ stack # <<>>
    /\ Top.pc = "global"
    /\ UNCHANGED <<machine, initialState, ctorError, currentState>>
    /\ TopHook = AnyHook
    /\ Executor(calls, Append(log, HookEvent(calls, "global", "throw", Top.id)),
                Pop(stack), Top.id)
    /\ phase' = PhaseOf(calls')

\* the global hook throws: the exception leaves _setState and its caller
GlobalThrow ==
    /\ result' = NoResult
    /\ stack # <<>>
    /\ Top.pc = "global"
    /\ UNCHANGED <<machine, initialState, currentState>>
    /\ TopHook = AnyHook
    /\ stack' = Pop(stack)
    /\ log' = Append(log, HookEvent(calls, "global", "throw", Top.id))
    /\ calls' = [calls EXCEPT ![Top.id].st = "thrown",
                              ![Top.id].val = HookError(Top.id)]
    /\ phase' = PhaseOf(calls')
    /\ ctorError' = IF Top.id = 1 THEN HookError(1) ELSE ctorError

\* resolve() in place of resolve(retVal): the value dropped
ExecutorResolveNothing(call, retVal) ==
    [call EXCEPT !.ret = retVal, !.st = "resolved", !.val = Undefined]

\* resolve(retVal) for a retVal that has no then()
ExecutorResolve(call, retVal) ==
    [call EXCEPT !.ret = retVal, !.st = "resolved", !.val = retVal]

\* the state's hook returns a value that has no then() (nothing at all, unless
\* plain): resolve(retVal)
StateReturn(plain) ==
    /\ result' = NoResult
    /\ stack # <<>>
    /\ Top.pc = "state"
    /\ UNCHANGED <<machine, initialState, ctorError, currentState>>
    /\ plain => TopHook = AnyHook
    /\ TopHook # ThenableHook
    /\ stack' = Pop(stack)
    /\ log' = Append(log, HookEvent(calls, "state", "ret", Top.id))
    /\ LET retVal == IF plain THEN HookValue(Top.id) ELSE Undefined
       IN calls' = [calls EXCEPT ![Top.id] =
                       [ExecutorResolve(calls[Top.id], retVal)
                           EXCEPT !.retCur = currentState]]
    /\ phase' = PhaseOf(calls')

\* the state's hook returns a promise: retVal.then(resolve, reject)
StateReturnPromise ==
    /\ result' = NoResult
    /\ stack # <<>>
    /\ Top.pc = "state"
    /\ UNCHANGED <<machine, initialState, ctorError, currentState>>
    /\ TopHook = AnyHook
    /\ stack' = Pop(stack)
    /\ log' = Append(log, HookEvent(calls, "state", "ret", Top.id))
    /\ calls' = [calls EXCEPT ![Top.id].ret = "promise",
                              ![Top.id].st = "pending", ![Top.id].hp = "pending",
                              ![Top.id].retCur = currentState]
    /\ phase' = PhaseOf(calls')

\* an executor that catches and rejects with an error of its own
ExecutorCatchWrapped(call, e) ==
    [call EXCEPT !.st = "rejected", !.val = InvalidSetState]

\* new Promise(executor): an exception e thrown by the executor rejects the
\* promise with e
ExecutorCatch(call, e) == [call EXCEPT !.st = "rejected", !.val = e]

\* the state's hook returns a thenable: retVal.then(resolve, reject) hands it
\* the resolving functions of the promise _setState returns
StateReturnThenable ==
    /\ result' = NoResult
    /\ stack # <<>>
    /\ Top.pc = "state"
    /\ UNCHANGED <<machine, initialState, ctorError, currentState>>
    /\ TopHook = ThenableHook
    /\ stack' = Pop(stack)
    /\ log' = Append(log, HookEvent(calls, "state", "ret", Top.id))
    /\ calls' = [calls EXCEPT ![Top.id].ret = "thenable",
                              ![Top.id].st = "pending",
                              ![Top.id].retCur = currentState]
    /\ phase' = PhaseOf(calls')

\* the value the thenable of call id passes to the n-th continuation it calls
ContinuationValue(id, n) ==
    <<<<"t11", "t12", "t13", "t14">>, <<"t21", "t22", "t23", "t24">>,
      <<"t31", "t32", "t33", "t34">>, <<"t41", "t42", "t43", "t44">>,
      <<"t51", "t52", "t53", "t54">>, <<"t61", "t62", "t63", "t64">>>>[id][n]

\* resolving functions that settle the promise every time they are called
ResolvingFunctionEveryTime(call, how, v) == [call EXCEPT !.st = how, !.val = v]

\* resolve(v) / reject(v) of the promise _setState returns: the pair settles
\* the promise the first time one of the two is called and does nothing after
ResolvingFunction(call, how, v) ==
    IF call.st = "pending" THEN [call EXCEPT !.st = how, !.val = v] ELSE call

\* the thenable of call i calls one of the continuations it was handed
Continue(i, how) ==
    /\ result' = NoResult
    /\ i \in 1..Len(calls)
    /\ stack = <<>>
    /\ calls[i].ret = "thenable"
    /\ Len(calls[i].conts) < MaxContinuations
    /\ LET n == Len(calls[i].conts) + 1
       IN calls' = [calls EXCEPT ![i] =
                       [ResolvingFunction(calls[i], how, ContinuationValue(i, n))
                           EXCEPT !.conts = Append(calls[i].conts, how)]]
    /\ UNCHANGED <<machine, initialState, phase, ctorError, currentState, stack, log>>

\* the state's hook throws inside the promise executor: the promise rejects
StateThrow ==
    /\ result' = NoResult
    /\ stack # <<>>
    /\ Top.pc = "state"
    /\ UNCHANGED <<machine, initialState, ctorError, currentState>>
    /\ TopHook = AnyHook
    /\ stack' = Pop(stack)
    /\ log' = Append(log, HookEvent(calls, "state", "throw", Top.id))
    /\ calls' = [calls EXCEPT ![Top.id] =
                     [ExecutorCatch(calls[Top.id], HookError(Top.id))
                         EXCEPT !.retCur = currentState]]
    /\ phase' = PhaseOf(calls')

\* the promise a hook returned settles (the hook's own code does this)
SettleHook(i, how) ==
    /\ result' = NoResult
    /\ i \in 1..Len(calls)
    /\ stack = <<>>
    /\ calls[i].hp = "pending"
    /\ calls' = [calls EXCEPT ![i].hp = how,
                              ![i].hpval = IF how = "resolved" THEN HookValue(i)
                                           ELSE HookError(i)]
    /\ UNCHANGED <<machine, initialState, phase, ctorError, currentState, stack, log>>

\* retVal.then() without handlers: the promise _setState returned is left alone
ReactionNone(call) == call

\* retVal.then(resolve, resolve): a rejection passed to resolve
ReactionAlwaysResolves(call) == [call EXCEPT !.st = "resolved", !.val = call.hpval]

\* retVal.then(() => resolve(), () => reject()): the value dropped
ReactionNoValue(call) == [call EXCEPT !.st = call.hp, !.val = Undefined]

\* what the reaction registered by retVal.then(resolve, reject) does to the
\* promise _setState returned
Reaction(call) == [call EXCEPT !.st = call.hp, !.val = call.hpval]

\* promise jobs run in the order of the transition calls: the job of a call
\* waits while the promise of an earlier call is pending
RunReactionInOrder(i) ==
    /\ result' = NoResult
    /\ stack = <<>>
    /\ i \in 1..Len(calls)
    /\ calls[i].hp \in {"resolved", "rejected"}
    /\ calls[i].st = "pending"
    /\ \A k \in 1..(i - 1) : calls[k].st # "pending"
    /\ calls' = [calls EXCEPT ![i] = Reaction(calls[i])]
    /\ UNCHANGED <<machine, initialState, phase, ctorError, currentState, stack, log>>

\* the promise job of retVal.then(resolve, reject) runs
RunReaction(i) ==
    /\ result' = NoResult
    /\ stack = <<>>
    /\ i \in 1..Len(calls)
    /\ calls[i].hp \in {"resolved", "rejected"}
    /\ calls[i].st = "pending"
    /\ calls' = [calls EXCEPT ![i] = Reaction(calls[i])]
    /\ UNCHANGED <<machine, initialState, phase, ctorError, currentState, stack, log>>

\* machine.getDotFile() called by code outside the hooks; production is
\* process.env.NODE_ENV === 'production' at that moment
GetDotFile(production) ==
    /\ phase = "ready"
    /\ stack = <<>>
    /\ Len(calls) < MaxCalls + 1
    /\ result' = getDotFile(machine, production)
    /\ UNCHANGED <<machine, initialState, phase, ctorError, currentState, calls,
                   stack, log>>

\* machine.currentState read by code outside the hooks
ReadCurrentState ==
    /\ phase = "ready"
    /\ stack = <<>>
    /\ Len(calls) < MaxCalls + 1
    /\ result' = Result("currentState", Undefined, currentState, FALSE)
    /\ UNCHANGED <<machine, initialState, phase, ctorError, currentState, calls,
                   stack, log>>

\* machine.isValidTransition(name) called by code outside the hooks: the
\* class defines no such method, the call of undefined throws
IsValidTransition(name) ==
    /\ phase = "ready"
    /\ stack = <<>>
    /\ Len(calls) < MaxCalls + 1
    /\ result' = Result("isValidTransition", name, TypeError, TRUE)
    /\ UNCHANGED <<machine, initialState, phase, ctorError, currentState, calls,
                   stack, log>>

Next ==
    \/ ConstructFail
    \/ Construct
    \/ \E t \in TransitionNames(machine) : Transition(t)
    \/ GlobalReturn
    \/ GlobalThrow
    \/ \E plain \in BOOLEAN : StateReturn(plain)
    \/ StateReturnPromise
    \/ StateReturnThenable
    \/ StateThrow
    \/ \E i \in 1..(MaxCalls + 1), how \in {"resolved", "rejected"} : Continue(i, how)
    \/ \E i \in 1..(MaxCalls + 1), how \in {"resolved", "rejected"} : SettleHook(i, how)
    \/ \E i \in 1..(MaxCalls + 1) : RunReaction(i)
    \/ \E production \in BOOLEAN : GetDotFile(production)
    \/ ReadCurrentState
    \/ \E name \in TransitionNames(machine) : IsValidTransition(name)

Spec == Init /\ [][Next]_vars

\* a hook body that was called comes to its end: it returns or it throws
HookStep ==
    \/ GlobalReturn
    \/ GlobalThrow
    \/ \E plain \in BOOLEAN : StateReturn(plain)
    \/ StateReturnPromise
    \/ StateReturnThenable
    \/ StateThrow

\* JavaScript runs to completion and then drains the promise job queue: the
\* hook bodies on the stack end, and the job that retVal.then(resolve,
\* reject) queued for a settled promise runs once the stack is empty.  When
\* a hook settles the promise it returned is up to the hook: no fairness.
FairSpec ==
    /\ Spec
    /\ WF_vars(HookStep)
    /\ \A i \in 1..(MaxCalls + 1) : WF_vars(RunReaction(i))

\* ------------------------------------------------------------ properties

\* what the configuration declares, read off the definition itself
IsTerminal(s) == Lookup(machine.states, s).tag = "null"

Declared(s, n) ==
    /\ ~IsTerminal(s)
    /\ n \in Keys(Lookup(machine.states, s).transitions)

DeclaredDest(s, n) ==
    LET entries == Lookup(machine.states, s).transitions.entries
    IN (CHOOSE e \in {entries[k] : k \in 1..Len(entries)} : e.key = n).val

\* the transition() calls
TransitionCalls == 2..Len(calls)

\* the call has returned a promise to its caller
Returned(i) == calls[i].st \in {"pending", "resolved", "rejected"}

\* the call stored its destination in currentState
Committed(i) == calls[i].to # Undefined

\* the hooks of call i that have been called, returned or thrown
EventsOf(i) == {k \in 1..Len(log) : log[k].id = i}

Max(S) == CHOOSE x \in S : \A y \in S : y <= x

\* C1: transition(name) with a name the current state does not declare is a
\* no-op: currentState is unchanged, no hook is invoked and the call returns
\* a promise rejected with an Error, in every reachable state.
C1_InvalidTransitionIsRejectedNoOp ==
    \A i \in TransitionCalls :
        ~Declared(calls[i].from, calls[i].name) =>
            /\ calls[i].st = "rejected"
            /\ calls[i].val = InvalidTransition
            /\ calls[i].retCur = calls[i].from
            /\ ~Committed(i)
            /\ EventsOf(i) = {}

\* C2 as stated: whenever transition(validName) has returned, currentState
\* at that moment is the destination of that call.
C2_ReturnsInDestination ==
    \A i \in TransitionCalls :
        (Committed(i) /\ Returned(i)) => calls[i].retCur = calls[i].to

\* the last transition committed by call i or from inside its hooks
LastNested(i) ==
    Max({i} \cup {j \in (i + 1)..Len(calls) : i \in calls[j].inside /\ Committed(j)})

\* C2 as amended: whenever transition(validName) has returned, currentState
\* at that moment is the destination of that call, or, when a hook called
\* during the call committed further transitions, the destination of the
\* last of those; a hook promise that is still pending makes no difference.
C2_ReturnsInLastNestedDestination ==
    \A i \in TransitionCalls :
        (Committed(i) /\ Returned(i)) => calls[i].retCur = calls[LastNested(i)].to

\* a call has returned while the promise of its destination's hook is still
\* pending, and currentState is its destination
C2_Witness ==
    \E i \in TransitionCalls :
        /\ calls[i].st = "pending"
        /\ calls[i].hp = "pending"
        /\ calls[i].to # calls[i].from
        /\ calls[i].retCur = calls[i].to
        /\ currentState = calls[i].to

\* the state the declared transitions lead to from the initial state under
\* the names of the first k calls (a name that is not declared is a no-op)
FoldStep(s, n) == IF Declared(s, n) THEN DeclaredDest(s, n) ELSE s

RECURSIVE Fold(_)
Fold(k) ==
    IF k = 1 THEN initialState
    ELSE FoldStep(Fold(k - 1), calls[k].name)

\* C3: a transition(n) call made in state s with n declared from s sets
\* currentState to exactly states[s].transitions[n], whatever the payload,
\* the history and the hooks' outcomes; so currentState is always the fold
\* of the declared transitions over the names called so far.
C3_DeterministicDestination ==
    /\ \A i \in TransitionCalls :
          Declared(calls[i].from, calls[i].name) =>
              calls[i].to = DeclaredDest(calls[i].from, calls[i].name)
    /\ calls # <<>> => currentState = Fold(Len(calls))

\* the traffic light, started in red, after three 'change' calls: green,
\* yellow, red
C3_Witness ==
    /\ machine = TrafficLight
    /\ initialState = "red"
    /\ Len(calls) = 4
    /\ \A i \in 2..4 : calls[i].name = "change"
    /\ calls[2].to = "green"
    /\ calls[3].to = "yellow"
    /\ calls[4].to = "red"
    /\ currentState = "red"
    /\ stack = <<>>

\* C4: once construction has succeeded, currentState is a key of states,
\* whatever valid and invalid transition calls and hook settlements follow.
C4_CurrentStateIsAKey ==
    phase = "ready" => currentState \in Keys(machine.states)

\* an instance after a rejected call, a committed call and a settled hook
\* promise
C4_Witness ==
    /\ phase = "ready"
    /\ currentState \in Keys(machine.states)
    /\ \E i \in TransitionCalls : ~Committed(i) /\ calls[i].st = "rejected"
    /\ \E i \in TransitionCalls : Committed(i) /\ calls[i].hp = "rejected"

\* C5: when the hook of the entered state returned a promise, the promise
\* the transition call returned settles the same way with the same value:
\* rejected with exactly E, or resolved with exactly V.
C5_PromiseTransparency ==
    \A i \in 1..Len(calls) :
        calls[i].hp # "none" =>
            \/ calls[i].st = "pending"
            \/ /\ calls[i].st = calls[i].hp
               /\ calls[i].val = calls[i].hpval

\* one call rejected with its hook's error and one resolved with its hook's
\* value
C5_Witness ==
    /\ \E i \in TransitionCalls :
          /\ calls[i].hp = "rejected"
          /\ calls[i].st = "rejected"
          /\ calls[i].val = HookError(i)
    /\ \E i \in TransitionCalls :
          /\ calls[i].hp = "resolved"
          /\ calls[i].st = "resolved"
          /\ calls[i].val = HookValue(i)

\* C6: in a state whose definition is null every transition call returns a
\* promise rejected with the invalid-transition error (it does not throw)
\* and leaves currentState unchanged.
C6_TerminalStateRejects ==
    \A i \in TransitionCalls :
        IsTerminal(calls[i].from) =>
            /\ calls[i].st = "rejected"
            /\ calls[i].val = InvalidTransition
            /\ ~Committed(i)

\* C7: on every entry (a transition or the initial one) into a state with a
\* hook of its own, the global hook, if there is one, has been called and
\* has returned before the state's hook is called.
C7_GlobalHookFirst ==
    \A k \in 1..Len(log) :
        (log[k].hook = "state" /\ log[k].ph = "call" /\ isFunction(machine.onEnter)) =>
            \E a \in 1..(k - 1) :
                /\ log[a].hook = "global" /\ log[a].ph = "call" /\ log[a].id = log[k].id
                /\ \E b \in (a + 1)..(k - 1) :
                      log[b].hook = "global" /\ log[b].ph = "ret" /\ log[b].id = log[k].id

\* both hooks have run for the initial entry and for a transition
C7_Witness ==
    /\ isFunction(machine.onEnter)
    /\ \E k \in 1..Len(log) : log[k].hook = "state" /\ log[k].ph = "call" /\ log[k].id = 1
    /\ \E k \in 1..Len(log) : log[k].hook = "state" /\ log[k].ph = "call" /\ log[k].id > 1

\* a hook entered by an earlier call is running or its promise is pending
Overlapping == \E i \in 1..Len(calls) : calls[i].st = "running" \/ calls[i].hp = "pending"

\* C8: a transition call made while the hook of an earlier one is running or
\* its promise is pending is judged against currentState as it is then and
\* stores its destination in that same step, without waiting.
C8_OverlappingNotQueued ==
    [][(Overlapping /\ Len(calls') = Len(calls) + 1) =>
          LET j == Len(calls')
          IN /\ calls'[j].from = currentState
             /\ IF Declared(currentState, calls'[j].name)
                THEN currentState' = DeclaredDest(currentState, calls'[j].name)
                ELSE currentState' = currentState]_vars

\* a call committed while an earlier hook promise was pending, and one
\* committed from inside a hook, the earlier promise still pending
C8_Witness ==
    /\ \E j \in TransitionCalls :
          /\ Committed(j)
          /\ \E i \in calls[j].pend :
                /\ calls[i].hp = "pending"
                /\ calls[j].from = calls[i].to
    /\ \E j \in TransitionCalls : Committed(j) /\ calls[j].inside # {}

\* the last call that stored its destination
LastCommitted == Max({i \in 1..Len(calls) : Committed(i)})

\* call j was made by the hook of call i before its promise settled: from
\* inside the hook, or while the promise it returned was pending
NestedIn(j, i) == j > i /\ Committed(j) /\ i \in calls[j].inside \cup calls[j].pend

\* C9: the promise of a call settles with what the hook of the state it
\* entered produced: if a further transition was started before that hook's
\* promise resolved with V, the call's promise still resolves with V, and
\* when it does currentState is the destination of that nested transition
\* (the last one committed).
C9_OuterResultAfterNested ==
    [][\A i \in 1..Len(calls) :
          (calls[i].st = "pending" /\ calls'[i].st = "resolved") =>
              /\ IF calls[i].ret = "thenable"
                 THEN LET n == Len(calls'[i].conts)
                      IN /\ calls'[i].conts[n] = "resolved"
                         /\ calls'[i].val = ContinuationValue(i, n)
                 ELSE /\ calls[i].hp = "resolved"
                      /\ calls'[i].val = calls[i].hpval
              /\ \A j \in 1..Len(calls) :
                    (NestedIn(j, i) /\ j = LastCommitted) =>
                        currentState' = calls[j].to]_vars

\* the test's scenario: the hook's promise resolved after a nested
\* transition, the outer call resolved with the hook's value, and the
\* machine is in the nested destination
C9_Witness ==
    \E i \in TransitionCalls, j \in TransitionCalls :
        /\ NestedIn(j, i)
        /\ j = LastCommitted
        /\ calls[i].st = "resolved"
        /\ calls[i].val = HookValue(i)
        /\ calls[j].from = calls[i].to
        /\ currentState = calls[j].to
        /\ currentState # calls[i].to

\* states is missing or is not a plain mapping
BadStates == machine.tag # "plain" \/ machine.states.tag # "plain"

\* the initial state, given or not, is not a key of states
BadInitialState == initialState \notin Keys(machine.states)

\* some declared transition leads to a name that is not a key of states
BadTarget ==
    \E i \in 1..Len(machine.states.entries) :
        LET def == machine.states.entries[i].val
        IN \E j \in 1..Len(def.transitions.entries) :
              def.transitions.entries[j].val \notin Keys(machine.states)

\* C10: construction throws, and there is no instance, for every
\* configuration whose states is missing or not a plain mapping, for every
\* initial state that is not a key of states, and for every configuration
\* with a transition whose destination is not a key of states.
C10_ValidationIsTotal ==
    (phase # "new" /\ (BadStates \/ BadInitialState \/ BadTarget)) =>
        /\ phase = "failed"
        /\ ctorError \in {InvalidStates, InvalidInitialState, InvalidDestination}

\* construction has failed on a dangling transition that is not the first
\* one of the configuration, the initial state being valid
C10_Witness ==
    /\ machine = LateDanglingMachine
    /\ initialState = "a"
    /\ phase = "failed"
    /\ ctorError = InvalidDestination


\* ---- C11

\* the states mapping is a plain mapping without keys
EmptyStates ==
    /\ isPlainObject(machine)
    /\ isPlainObject(machine.states)
    /\ Keys(machine.states) = {}

\* C11: a configuration whose states mapping is present but has no keys is
\* rejected at construction with the 'invalid states' failure, not with the
\* 'invalid initial state' failure.
C11_EmptyStatesIsInvalidStates ==
    (phase # "new" /\ EmptyStates) =>
        /\ phase = "failed"
        /\ ctorError = InvalidStates


\* ---- C12

\* construction was refused by the validation of the configuration
ValidationFailed ==
    /\ phase = "failed"
    /\ ctorError \in {InvalidStates, InvalidInitialState, InvalidDestination}

\* C12: when construction fails validation, it fails before any state is
\* set: currentState is never assigned a state name and neither the global
\* hook nor the hook of any state is invoked.
C12_FailedValidationSetsNothing ==
    ValidationFailed =>
        /\ currentState = Null
        /\ calls = <<>>
        /\ log = <<>>

\* construction was refused for a dangling transition although the initial
\* state is a key of states and the configuration has a global hook
C12_Witness ==
    /\ ValidationFailed
    /\ ctorError = InvalidDestination
    /\ has(machine.states, initialState)
    /\ isFunction(machine.onEnter)


\* ---- C13

\* the calls of hook made for call i
HookCalls(hook, i) ==
    {k \in 1..Len(log) : log[k].id = i /\ log[k].hook = hook /\ log[k].ph = "call"}

\* the call has come to its end: it returned a promise or it threw
Finished(i) == calls[i].st # "running"

\* C13: on every successful transition(name, payload) the global hook and
\* the hook of the destination are called with exactly (payload,
\* destination, oldState, name), oldState being the value currentState had
\* immediately before the call stored its destination.
C13_HookArguments ==
    \A k \in 1..Len(log) :
        (log[k].ph = "call" /\ log[k].id \in TransitionCalls) =>
            LET i == log[k].id
            IN /\ log[k].data = Payload(i)
               /\ log[k].transition = calls[i].name
               /\ log[k].oldState = Fold(i - 1)
               /\ Declared(log[k].oldState, calls[i].name)
               /\ log[k].newState = DeclaredDest(log[k].oldState, calls[i].name)

\* a transition from idle to busy has called the global hook and the hook of
\* busy, each with the payload, 'busy', 'idle' and 'go'
C13_Witness ==
    \E i \in TransitionCalls :
        /\ machine = BranchMachine
        /\ HookCalls("global", i) # {}
        /\ HookCalls("state", i) # {}
        /\ \A k \in HookCalls("global", i) \cup HookCalls("state", i) :
              /\ log[k].data = Payload(i)
              /\ log[k].newState = "busy"
              /\ log[k].oldState = "idle"
              /\ log[k].transition = "go"


\* ---- C14

\* C14: successful construction enters the initial state through the hook
\* path of a transition: the global hook and the hook of the initial state
\* are each invoked exactly once during construction, with newState the
\* initial state, oldState null and no transition name, and the hook of no
\* other state is invoked.
C14_ConstructionEntersInitialState ==
    /\ phase = "constructing" => \A k \in 1..Len(log) : log[k].id = 1
    /\ calls # <<>> =>
          \A k \in EventsOf(1) :
              /\ log[k].newState = initialState
              /\ log[k].oldState = Null
              /\ log[k].transition = Undefined
              /\ log[k].data = Undefined
    /\ phase = "ready" =>
          /\ isFunction(machine.onEnter) => Cardinality(HookCalls("global", 1)) = 1
          /\ HasStateHook(initialState) => Cardinality(HookCalls("state", 1)) = 1
          /\ ~HasStateHook(initialState) => HookCalls("state", 1) = {}

\* a machine was constructed whose global hook and whose initial state's hook
\* have both been called, and a later transition has called hooks as well
C14_Witness ==
    /\ phase = "ready"
    /\ HookCalls("global", 1) # {}
    /\ HookCalls("state", 1) # {}
    /\ \E i \in TransitionCalls : HookCalls("state", i) # {}


\* ---- C15

\* the calls of the global hook
GlobalCalls == {k \in 1..Len(log) : log[k].hook = "global" /\ log[k].ph = "call"}

\* the transition happened: the call stored its destination, and it has come
\* to its end
Successful(i) == Committed(i) /\ Finished(i)

\* C15 as stated: every successful transition invokes the global hook exactly
\* once and the hook of the destination exactly once, and the hook of no
\* other state; the number of calls of the global hook is one plus the number
\* of successful transitions.
C15_EachHookOncePerTransition ==
    /\ \A i \in TransitionCalls :
          Successful(i) =>
              /\ isFunction(machine.onEnter) =>
                    Cardinality(HookCalls("global", i)) = 1
              /\ HasStateHook(calls[i].to) =>
                    Cardinality(HookCalls("state", i)) = 1
              /\ \A k \in EventsOf(i) : log[k].newState = calls[i].to
    /\ (isFunction(machine.onEnter) /\ phase = "ready" /\ stack = <<>>) =>
          Cardinality(GlobalCalls) =
              1 + Cardinality({i \in TransitionCalls : Successful(i)})

\* C15, amended: every transition call that stores its destination invokes
\* the global hook exactly once and, unless the global hook throws, the hook
\* of the destination exactly once; when the global hook throws, the hook of
\* the destination is not invoked.  No hook of another state is invoked, and
\* the number of calls of the global hook is one plus the number of
\* transition calls that stored a destination.
C15_HooksPerCommittedTransition ==
    /\ \A i \in TransitionCalls :
          /\ ~Committed(i) => EventsOf(i) = {}
          /\ Committed(i) =>
                /\ isFunction(machine.onEnter) =>
                      Cardinality(HookCalls("global", i)) = 1
                /\ (Finished(i) /\ calls[i].st # "thrown"
                                /\ HasStateHook(calls[i].to)) =>
                      Cardinality(HookCalls("state", i)) = 1
                /\ (calls[i].st = "thrown" \/ ~HasStateHook(calls[i].to)) =>
                      HookCalls("state", i) = {}
                /\ Cardinality(HookCalls("state", i)) <= 1
                /\ \A k \in EventsOf(i) : log[k].newState = calls[i].to
    /\ (isFunction(machine.onEnter) /\ calls # <<>>) =>
          Cardinality(GlobalCalls) =
              1 + Cardinality({i \in TransitionCalls : Committed(i)})

\* of two transitions into a state with a hook, the global hook threw in one
\* and returned in the other, whose state hook was then called
C15_Witness ==
    \E i, j \in TransitionCalls :
        /\ Committed(i) /\ calls[i].st = "thrown"
        /\ HasStateHook(calls[i].to)
        /\ Committed(j) /\ Returned(j)
        /\ HookCalls("state", j) # {}
        /\ Cardinality(GlobalCalls) = 1 + Cardinality({n \in TransitionCalls : Committed(n)})


\* ---- C16

\* the global hook threw in call i
GlobalThrew(i) ==
    \E k \in EventsOf(i) : log[k].hook = "global" /\ log[k].ph = "throw"

\* C16: an exception the global hook throws during a transition reaches the
\* caller as the rejection of the promise transition() returns, not as an
\* exception thrown out of the transition() call.
C16_GlobalThrowIsRejection ==
    \A i \in TransitionCalls :
        GlobalThrew(i) =>
            /\ calls[i].st = "rejected"
            /\ calls[i].val = HookError(i)


\* ---- C17

\* the hook of the destination threw in call i
StateThrew(i) ==
    \E k \in EventsOf(i) : log[k].hook = "state" /\ log[k].ph = "throw"

\* C17: an exception E the destination's hook throws is delivered as the
\* rejection of the promise transition() returns, with exactly E, and is not
\* thrown out of the transition() call.
C17_StateThrowIsRejectionWithE ==
    \A i \in TransitionCalls :
        StateThrew(i) =>
            /\ calls[i].st = "rejected"
            /\ calls[i].val = HookError(i)
            /\ calls[i].hp = "none"

\* a transition whose destination's hook threw, after the global hook had
\* returned
C17_Witness ==
    \E i \in TransitionCalls :
        /\ StateThrew(i)
        /\ HookCalls("global", i) # {}
        /\ calls[i].st = "rejected"
        /\ calls[i].val = HookError(i)


\* ---- C18

\* the hook of the destination of call i failed: it threw, or the promise it
\* returned was rejected
HookFailed(i) == StateThrew(i) \/ calls[i].hp = "rejected"

\* C18: a hook failure does not roll back the state: when the hook of the
\* destination throws or its promise rejects, currentState remains the
\* destination of that transition unless a later transition has changed it,
\* and the machine accepts further transitions from the destination.
C18_NoRollbackOnHookFailure ==
    \A i \in TransitionCalls :
        HookFailed(i) =>
            /\ Committed(i)
            /\ LastCommitted = i => currentState = calls[i].to
            /\ \A j \in (i + 1)..Len(calls) :
                  (calls[j].from = calls[i].to
                      /\ Declared(calls[j].from, calls[j].name)) =>
                      /\ Committed(j)
                      /\ calls[j].to = DeclaredDest(calls[i].to, calls[j].name)

\* a transition into busy was rejected by the promise of busy's hook, and the
\* next call, made in busy, took the machine on to idle
C18_Witness ==
    \E i \in TransitionCalls :
        /\ i + 1 <= Len(calls)
        /\ calls[i].to = "busy"
        /\ calls[i].hp = "rejected"
        /\ calls[i].st = "rejected"
        /\ calls[i + 1].from = "busy"
        /\ calls[i + 1].to = "idle"
        /\ currentState = "idle"


\* ---- C19

\* the hook of the destination of call i returned a value without then()
ReturnedPlain(i) == calls[i].ret \notin {"none", "promise", "thenable"}

\* C19: if the entered state has no hook (a null definition or a definition
\* without onEnter) the transition result resolves with nothing, and if the
\* hook returns a value that is not promise-like the result resolves with
\* exactly that value; in neither case is the result rejected.
C19_PlainResultsResolve ==
    \A i \in TransitionCalls :
        /\ (Committed(i) /\ Returned(i) /\ ~HasStateHook(calls[i].to)) =>
              /\ calls[i].st = "resolved"
              /\ calls[i].val = Undefined
        /\ ReturnedPlain(i) =>
              /\ calls[i].st = "resolved"
              /\ calls[i].val = calls[i].ret

\* one transition entered a state without a hook, another one a state whose
\* hook returned a value, and both resolved
C19_Witness ==
    \E i, j \in TransitionCalls :
        /\ Committed(i) /\ ~HasStateHook(calls[i].to)
        /\ calls[i].st = "resolved" /\ calls[i].val = Undefined
        /\ calls[j].ret = HookValue(j)
        /\ calls[j].st = "resolved" /\ calls[j].val = HookValue(j)


\* ---- C20

\* the promise has settled
Settled(p) == p \in {"resolved", "rejected"}

\* C20: the result of a transition into a state whose hook returned a promise
\* settles if and only if that promise settles: once the hook's promise has
\* settled the result eventually settles, and as long as the hook's promise
\* is pending the result is pending (no timeout, no cancellation).
C20_SettlesIffHookPromiseSettles ==
    /\ \A i \in 2..(MaxCalls + 1) :
          (i <= Len(calls) /\ Settled(calls[i].hp)) ~>
              (i <= Len(calls) /\ Settled(calls[i].st))
    /\ [](\A i \in TransitionCalls :
              calls[i].hp = "pending" => calls[i].st = "pending")

\* of two transitions whose hooks returned promises, one has settled with
\* the rejection of its hook's promise while the other one's is pending
C20_Witness ==
    \E i, j \in TransitionCalls :
        /\ calls[i].hp = "rejected" /\ calls[i].st = "rejected"
        /\ calls[j].hp = "pending" /\ calls[j].st = "pending"


\* ---- C21

\* C21: currentState is written only by construction and by successful
\* transition calls, once per such call and inside it: a step changes it
\* only by making a call that stores its destination, and then to that
\* destination; a rejected transition, the end of a hook, the settlement of
\* a hook's promise, reading currentState and exporting the diagram leave it
\* as it is.
C21_CurrentStateWrittenOnlyByEntry ==
    [][LET n == Len(calls')
       IN IF n = Len(calls) + 1 /\ calls'[n].to # Undefined
          THEN currentState' = calls'[n].to
          ELSE currentState' = currentState]_vars

\* after a transition that stored its destination, a rejected transition
\* and the settlement of a hook's promise, the diagram has been exported
C21_Witness ==
    /\ result.op = "getDotFile"
    /\ \E i, j, k \in TransitionCalls :
          /\ Committed(i) /\ calls[i].to # calls[i].from
          /\ ~Committed(j) /\ calls[j].st = "rejected"
          /\ Settled(calls[k].hp) /\ Settled(calls[k].st)
    /\ currentState = calls[LastCommitted].to


\* ---- C22

\* C22: isValidTransition(name) returns true exactly when name is a declared
\* transition of the current state and false otherwise, and changes neither
\* currentState nor the hooks called.
C22_IsValidTransitionAnswers ==
    result.op = "isValidTransition" =>
        /\ ~result.thrown
        /\ result.out = Declared(currentState, result.arg)


\* ---- C23

\* the promise of the initial state's hook was rejected, and with it the
\* promise of the initial entry
InitialEntryRejected ==
    /\ calls # <<>>
    /\ calls[1].hp = "rejected"
    /\ calls[1].st = "rejected"

\* the calls of rejection handlers the constructor attached: each one is
\* called with the error once the promise of the initial entry is rejected
HandlerCalls ==
    IF calls # <<>> /\ calls[1].st = "rejected"
    THEN {[handler |-> h, error |-> calls[1].val] : h \in CtorHandlers}
    ELSE {}

\* C23: when an initialStateErrorHandler is passed as third constructor
\* argument and the promise of the initial state's onEnter rejects with E
\* during the initial entry, the handler is invoked with E.
C23_InitialErrorHandlerInvoked ==
    InitialEntryRejected =>
        [handler |-> initialStateErrorHandler, error |-> HookError(1)] \in HandlerCalls

\* ---- C24

\* C24: the asynchronous completion of the initial state's hooks is handled
\* inside the machine: a rejection of the initial state's hook promise does
\* not make construction fail, leaves currentState the initial state, and
\* does not remain a rejected promise without a rejection handler.
C24_InitialRejectionHandledInside ==
    InitialEntryRejected =>
        /\ phase = "ready"
        /\ LastCommitted = 1 => currentState = initialState
        /\ CtorHandlers # {}


\* ---- C25

\* the transitions a state definition declares, none for a null definition
DeclaredEntries(def) ==
    IF def.tag = "null" \/ ~Truthy(def.transitions) THEN <<>>
    ELSE def.transitions.entries

\* the number of transitions declared by the first n states
RECURSIVE EdgesBefore(_)
EdgesBefore(n) ==
    IF n = 0 THEN 0
    ELSE EdgesBefore(n - 1) + Len(DeclaredEntries(machine.states.entries[n].val))

\* text is one node line per state in key order, then one edge line per
\* declared transition, state by state in key order
IsDiagramOf(text) ==
    LET states == machine.states.entries
        n == Len(states)
    IN /\ Len(text) = n + EdgesBefore(n)
       /\ \A a \in 1..n :
             /\ text[a] = <<"node", states[a].key>>
             /\ \A b \in 1..Len(DeclaredEntries(states[a].val)) :
                   text[n + EdgesBefore(a - 1) + b] =
                       <<"edge", states[a].key,
                         DeclaredEntries(states[a].val)[b].val,
                         DeclaredEntries(states[a].val)[b].key>>

\* C25: for every validated configuration, also with terminal (null) states
\* or states without transitions, the diagram export returns one node line
\* per state in key order followed by one edge line (from, to, label) per
\* declared transition in per-state order, and an export that follows
\* another one returns the same text.
C25_DiagramExport ==
    [][(result'.op = "getDotFile" /\ ~result'.arg) =>
          /\ ~result'.thrown
          /\ IsDiagramOf(result'.out)
          /\ (result.op = "getDotFile" /\ ~result.arg) => result'.out = result.out]_vars


\* ---- C26

\* the calls of state hooks
StateCalls == {k \in 1..Len(log) : log[k].hook = "state" /\ log[k].ph = "call"}

\* C26 as stated: whenever the hook of a state S begins executing,
\* currentState is S, also for entries during which the global hook issued a
\* re-entrant transition call.
C26_StateHookStartsInItsState ==
    \A k \in StateCalls : log[k].cur = log[k].newState

\* C26, amended: when the hook of a state S begins executing, currentState is
\* the destination of the last transition call stored so far: that is S,
\* unless the global hook of this entry issued, itself or through the hooks
\* it set off, a re-entrant transition call that stored a destination.
C26_StateHookStartsInLastDestination ==
    [][(Len(log') = Len(log) + 1 /\ log'[Len(log')].hook = "state"
                                 /\ log'[Len(log')].ph = "call") =>
          LET e == log'[Len(log')]
              last == Max({j \in 1..Len(calls') : calls'[j].to # Undefined})
          IN /\ e.cur = currentState'
             /\ currentState' = calls'[last].to
             /\ last = e.id => e.cur = e.newState
             /\ last # e.id => (last > e.id /\ e.id \in calls'[last].inside)]_vars

\* the hook of a state began executing while currentState was another state,
\* after a transition call made by the global hook of the same entry
C26_Witness ==
    \E k \in StateCalls :
        /\ log[k].cur # log[k].newState
        /\ \E j \in TransitionCalls :
              /\ j > log[k].id
              /\ Committed(j)
              /\ log[k].id \in calls[j].inside
              /\ calls[j].to = log[k].cur


\* ---- C27

\* C27: the invocations of the global hook, in the order they start, form a
\* path in the declared graph: the first has oldState null and newState the
\* initial state, and every later one has oldState equal to the newState of
\* the one before it and newState = states[oldState].transitions[name],
\* also for re-entrant calls and calls made while hooks are pending.
C27_GlobalCallsFormAPath ==
    \A k \in GlobalCalls :
        LET before == {q \in GlobalCalls : q < k}
        IN IF before = {}
           THEN /\ log[k].oldState = Null
                /\ log[k].newState = initialState
                /\ log[k].transition = Undefined
           ELSE /\ log[k].oldState = log[Max(before)].newState
                /\ Declared(log[k].oldState, log[k].transition)
                /\ log[k].newState = DeclaredDest(log[k].oldState, log[k].transition)

\* the global hook was invoked four times: for the initial entry, for a
\* transition, for a transition made from inside that invocation, and for a
\* transition made while a hook's promise was pending
C27_Witness ==
    /\ Cardinality(GlobalCalls) = 4
    /\ \E i, j \in TransitionCalls : i < j /\ Committed(j) /\ i \in calls[j].inside
                                          /\ log[Max(HookCalls("global", j))].oldState = calls[i].to
    /\ \E i, j \in TransitionCalls : i < j /\ Committed(j) /\ i \in calls[j].pend


\* ---- C28

\* C28: the result of each transition call settles at most once and never
\* changes afterwards, also when the promise-like value the hook returned
\* calls its success and failure continuations more than once or calls both.
C28_SettlesAtMostOnce ==
    [][\A i \in TransitionCalls :
          Settled(calls[i].st) =>
              /\ calls'[i].st = calls[i].st
              /\ calls'[i].val = calls[i].val]_vars

\* a thenable called the success continuation and then the failure
\* continuation: the result is resolved with the first value
C28_Witness ==
    \E i \in TransitionCalls :
        /\ calls[i].ret = "thenable"
        /\ calls[i].conts = <<"resolved", "rejected">>
        /\ calls[i].st = "resolved"
        /\ calls[i].val = ContinuationValue(i, 1)


\* ---- C29

\* C29: if the global hook throws during a state entry, the hook of the
\* entered state is not invoked for that entry, while currentState has
\* already been set to the entered state and stays so (until a later
\* transition stores another destination).
C29_GlobalThrowSkipsStateHook ==
    \A i \in 1..Len(calls) :
        GlobalThrew(i) =>
            /\ HookCalls("state", i) = {}
            /\ Committed(i)
            /\ LastCommitted = i => currentState = calls[i].to

\* the global hook threw during a transition into a state that has a hook:
\* the machine is in that state and the state's hook was not called
C29_Witness ==
    \E i \in TransitionCalls :
        /\ GlobalThrew(i)
        /\ HasStateHook(calls[i].to)
        /\ calls[i].to # calls[i].from
        /\ LastCommitted = i
        /\ currentState = calls[i].to
        /\ HookCalls("state", i) = {}


\* ---- C30

\* the promise of call i is pending on the promise its hook returned
Waiting(i) == calls[i].st = "pending"

\* C30: the results of overlapping transition calls settle independently.
\* A call that returns after a hook-less entry or a plain return of its hook
\* is settled although the promise of an earlier call is pending; the job
\* that settles a call whose hook's promise has settled can run although an
\* earlier call is pending; and the settlement of a call changes neither
\* currentState nor the result of any other call.
C30_OverlappingSettleIndependently ==
    /\ [](\A j \in TransitionCalls :
             /\ (Returned(j) /\ Committed(j)
                    /\ (~HasStateHook(calls[j].to) \/ ReturnedPlain(j))) =>
                   Settled(calls[j].st)
             /\ (stack = <<>> /\ Settled(calls[j].hp) /\ Waiting(j)) =>
                   ENABLED RunReaction(j))
    /\ [][\A i \in 1..Len(calls) :
             (Waiting(i) /\ ~(calls'[i].st = "pending")) =>
                 /\ currentState' = currentState
                 /\ \A j \in 1..Len(calls) : j # i => calls'[j] = calls[j]]_vars

\* a later call has settled with the outcome of its hook's promise while the
\* promise of an earlier call, pending when the later one was made, still is
C30_Witness ==
    \E i, j \in TransitionCalls :
        /\ i < j
        /\ i \in calls[j].pend
        /\ Waiting(i)
        /\ Settled(calls[j].hp)
        /\ calls[j].st = calls[j].hp
        /\ calls[j].val = calls[j].hpval

====
